---- MODULE Spec2Model ----
(***************************************************************************)
(* PasswordAnalyzer of password_checker.py: the nine criteria, the score,  *)
(* the strength tier, the crack-time estimate and the advisory lists.      *)
(*                                                                         *)
(* A password (a Python str) is a sequence of characters, each character a *)
(* one-character string.  A Python int is an arbitrary-precision natural,  *)
(* kept as a little-endian sequence of 11-bit limbs; a Python float is an  *)
(* IEEE-754 double, kept as [m, e] with value m * 2^e and m < 2^53 + 1,    *)
(* and every float operation rounds to nearest, ties to even, as the       *)
(* hardware does.  A call either returns or raises.                        *)
(***************************************************************************)
EXTENDS Integers, Sequences, FiniteSets, TLC

(***************************************************************************)
(* Bounds of the model.                                                    *)
(***************************************************************************)
\* every string over EnumChars of at most this length is an input
MaxLen == 3
\* every class combination is an input at every length 1..MaxRepLen
MaxRepLen == 20
\* the length of the long inputs
LongLen == 170
\* get_strength_level is called with every score in -MaxScore..MaxScore
MaxScore == 105

(***************************************************************************)
(* Python int: naturals of any size.  No operator recurses over the limbs  *)
(* of a large number: products are column sums followed by carry passes.   *)
(***************************************************************************)
LimbBits == 11
Base == 2^LimbBits

Limb(x, i) == IF i \in 1..Len(x) THEN x[i] ELSE 0

\* x without its high zero limbs
Trim(x) ==
    IF \A i \in 1..Len(x) : x[i] = 0 THEN <<>>
    ELSE SubSeq(x, 1, CHOOSE i \in 1..Len(x) :
                        x[i] # 0 /\ \A j \in (i+1)..Len(x) : x[j] = 0)

RECURSIVE FromInt(_)
FromInt(n) == IF n = 0 THEN <<>> ELSE <<n % Base>> \o FromInt(n \div Base)

\* for a number of at most two limbs
ToInt(x) == Limb(x, 1) + Base * Limb(x, 2)

\* one carry pass over limbs that may exceed Base
CarryPass(v) == [i \in 1..(Len(v) + 1) |->
                  (Limb(v, i) % Base) + (Limb(v, i - 1) \div Base)]

\* limbs of at most Base each, to limbs below Base
CarryRipple(w) ==
    LET cin(i) == \E j \in 1..(i-1) :
                     /\ w[j] = Base
                     /\ \A l \in (j+1)..(i-1) : w[l] >= Base - 1
    IN  [i \in 1..(Len(w) + 1) |-> (Limb(w, i) + IF cin(i) THEN 1 ELSE 0) % Base]

\* limbs below 2^31 each, to the number they stand for
Normalize(v) == Trim(CarryRipple(CarryPass(CarryPass(CarryPass(v)))))

\* x * k for 0 < k < 2^20
MulSmall(x, k) == Normalize([i \in 1..Len(x) |-> x[i] * k])

\* sum of x[i] * y[k + 1 - i] for i in lo..hi
RECURSIVE Column(_, _, _, _, _)
Column(x, y, k, lo, hi) ==
    IF lo > hi THEN 0
    ELSE IF lo = hi THEN x[lo] * y[k + 1 - lo]
    ELSE LET mid == (lo + hi) \div 2
         IN  Column(x, y, k, lo, mid) + Column(x, y, k, mid + 1, hi)

Max(a, b) == IF a > b THEN a ELSE b
Min(a, b) == IF a < b THEN a ELSE b

BigMul(x, y) ==
    IF x = <<>> \/ y = <<>> THEN <<>>
    ELSE Normalize([k \in 1..(Len(x) + Len(y) - 1) |->
                      Column(x, y, k, Max(1, k + 1 - Len(y)), Min(k, Len(x)))])

\* a ** n
RECURSIVE BigPow(_, _)
BigPow(a, n) ==
    IF n = 0 THEN <<1>>
    ELSE LET h  == BigPow(a, n \div 2)
             h2 == BigMul(h, h)
         IN  IF n % 2 = 0 THEN h2 ELSE MulSmall(h2, a)

\* x \div d and x % d for 0 < d < 2^20 and x of a few limbs
RECURSIVE DivSmall(_, _)
DivSmall(x, d) ==
    IF x = <<>> THEN [q |-> <<>>, r |-> 0]
    ELSE LET hi == DivSmall(Tail(x), d)
             t  == hi.r * Base + Head(x)
         IN  [q |-> IF hi.q = <<>> /\ t \div d = 0 THEN <<>>
                    ELSE <<t \div d>> \o hi.q,
              r |-> t % d]

\* x \div (ds[1] * ... * ds[n]), and whether the division left a remainder
RECURSIVE DivAll(_, _)
DivAll(x, ds) ==
    IF ds = <<>> THEN [q |-> x, sticky |-> FALSE]
    ELSE LET d    == DivSmall(x, Head(ds))
             rest == DivAll(d.q, Tail(ds))
         IN  [q |-> rest.q, sticky |-> rest.sticky \/ d.r # 0]

\* x + 1 for x of a few limbs
RECURSIVE AddOne(_)
AddOne(x) ==
    IF x = <<>> THEN <<1>>
    ELSE IF Head(x) + 1 < Base THEN <<Head(x) + 1>> \o Tail(x)
    ELSE <<0>> \o AddOne(Tail(x))

IsOdd(x) == x # <<>> /\ Head(x) % 2 = 1

BitLen(x) ==
    IF x = <<>> THEN 0
    ELSE LimbBits * (Len(x) - 1)
         + (CHOOSE b \in 1..LimbBits : 2^(b-1) <= x[Len(x)] /\ x[Len(x)] < 2^b)

\* x * 2^k
ShiftLeft(x, k) ==
    LET n == k \div LimbBits
        r == k % LimbBits
    IN  Trim([i \in 1..(Len(x) + n + 1) |->
                (Limb(x, i - n) % 2^(LimbBits - r)) * 2^r
                + (Limb(x, i - n - 1) \div 2^(LimbBits - r))])

\* x \div 2^k, and whether a nonzero bit was shifted out
ShiftRight(x, k) ==
    LET n == k \div LimbBits
        r == k % LimbBits
    IN  [q |-> Trim([i \in 1..Max(0, Len(x) - n) |->
                       (Limb(x, i + n) \div 2^r)
                       + (Limb(x, i + n + 1) % 2^r) * 2^(LimbBits - r)]),
         sticky |-> \/ \E i \in 1..Len(x) : i <= n /\ x[i] # 0
                    \/ (Limb(x, n + 1) % 2^r) # 0]

BigLess(x, y) ==
    \/ Len(x) < Len(y)
    \/ /\ Len(x) = Len(y)
       /\ \E i \in 1..Len(x) :
            /\ x[i] < y[i]
            /\ \A j \in (i+1)..Len(x) : x[j] = y[j]

(***************************************************************************)
(* Python float: IEEE-754 binary64, round to nearest, ties to even.        *)
(***************************************************************************)
MantBits == 53
MaxExp == 1024

\* (q + f) * 2^e with 0 <= f < 1 and f > 0 iff sticky, rounded to a double;
\* q has more than MantBits bits whenever sticky
RoundToDouble(q, sticky, e) ==
    IF BitLen(q) <= MantBits THEN [m |-> q, e |-> e]
    ELSE LET drop == BitLen(q) - MantBits
             t    == ShiftRight(q, drop - 1)
             m0   == ShiftRight(t.q, 1).q
             up   == IsOdd(t.q) /\ (sticky \/ t.sticky \/ IsOdd(m0))
         IN  [m |-> IF up THEN AddOne(m0) ELSE m0, e |-> e + drop]

\* n * 2^e / (ds[1] * ... * ds[k]) rounded to a double, each ds[i] < 2^20:
\* n is first brought to Window bits, the bits cut off kept as a sticky bit
Quotient(n, e, ds) ==
    IF n = <<>> THEN [m |-> <<>>, e |-> 0]
    ELSE LET Window == MantBits + 2 + 20 * Len(ds)
             s   == Window - BitLen(n)
             cut == IF s >= 0 THEN [q |-> ShiftLeft(n, s), sticky |-> FALSE]
                    ELSE ShiftRight(n, -s)
             d   == DivAll(cut.q, ds)
         IN  RoundToDouble(d.q, d.sticky \/ cut.sticky, e - s)

Overflows(x) == BitLen(x.m) + x.e > MaxExp

\* int / int, the divisor given by its factors
IntTrueDiv(a, ds) ==
    IF \E i \in 1..Len(ds) : ds[i] = 0
    THEN [kind |-> "raise", value |-> "ZeroDivisionError"]
    ELSE LET x == Quotient(a, 0, ds)
         IN  IF Overflows(x) THEN [kind |-> "raise", value |-> "OverflowError"]
             ELSE [kind |-> "return", value |-> x]

\* float / int
FloatDiv(x, ds) == Quotient(x.m, x.e, ds)

\* float * int
FloatMul(x, k) == RoundToDouble(MulSmall(x.m, k), FALSE, x.e)

\* float < int
FloatLess(x, t) ==
    IF x.e >= 0 THEN BigLess(ShiftLeft(x.m, x.e), t)
    ELSE BigLess(x.m, ShiftLeft(t, -x.e))

\* int(float), for a float >= 0
FloatToInt(x) ==
    IF x.e >= 0 THEN ShiftLeft(x.m, x.e) ELSE ShiftRight(x.m, -x.e).q

(***************************************************************************)
(* Python str: characters, str.lower() and the regular expressions used.   *)
(***************************************************************************)
LowerAlpha == <<"a", "b", "c", "d", "e", "f", "g", "h", "i", "j", "k", "l",
              "m", "n", "o", "p", "q", "r", "s", "t", "u", "v", "w", "x",
              "y", "z">>
UpperAlpha == <<"A", "B", "C", "D", "E", "F", "G", "H", "I", "J", "K", "L",
              "M", "N", "O", "P", "Q", "R", "S", "T", "U", "V", "W", "X",
              "Y", "Z">>
DigitAlpha == <<"0", "1", "2", "3", "4", "5", "6", "7", "8", "9">>

Range(s) == {s[i] : i \in 1..Len(s)}

\* the characters matched by [a-z], [A-Z] and [0-9]
LowerChars == Range(LowerAlpha)
UpperChars == Range(UpperAlpha)
DigitChars == Range(DigitAlpha)

\* characters of no class above, the newline among them
OtherChars == {"!", "@", "&", "-", " ", "\n"}

\* str.lower() of one character
LowerOf(c) ==
    IF c \in UpperChars
    THEN LowerAlpha[CHOOSE i \in 1..Len(UpperAlpha) : UpperAlpha[i] = c]
    ELSE c

\* password.lower()
StrLower(s) == [i \in 1..Len(s) |-> LowerOf(s[i])]

\* re.search(r'[a-z]', s), r'[A-Z]', r'[0-9]': some character in the class
SearchClass(class, s) == \E i \in 1..Len(s) : s[i] \in class

\* re.search(r'[^a-zA-Z0-9]', s)
SearchOther(s) ==
    \E i \in 1..Len(s) : s[i] \notin (LowerChars \cup UpperChars \cup DigitChars)

\* re.search(r'(.)\1{2,}', s): "." matches any character but the newline
SearchRepeat(s) ==
    \E i \in 1..(Len(s) - 2) :
        s[i] # "\n" /\ s[i + 1] = s[i] /\ s[i + 2] = s[i]

SequencePatterns == {<<"1", "2", "3">>, <<"a", "b", "c">>, <<"q", "w", "e">>,
                     <<"a", "s", "d">>, <<"z", "x", "c">>}

\* re.search(r'123|abc|qwe|asd|zxc', s, re.IGNORECASE)
SearchSequence(s) ==
    \E pat \in SequencePatterns : \E i \in 1..(Len(s) - 2) :
        \A j \in 1..3 : LowerOf(s[i + j - 1]) = pat[j]

\* x in list
InList(x, list) == \E i \in 1..Len(list) : list[i] = x

(***************************************************************************)
(* PasswordAnalyzer.__init__                                               *)
(***************************************************************************)
\* a variant of the list that also has "000123", an entry with a run of
\* three equal characters
CommonPasswordsWithRun ==
    << <<"p", "a", "s", "s", "w", "o", "r", "d">>,
       <<"1", "2", "3", "4", "5", "6">>,
       <<"p", "a", "s", "s", "w", "o", "r", "d", "1", "2", "3">>,
       <<"a", "d", "m", "i", "n">>,
       <<"q", "w", "e", "r", "t", "y">>,
       <<"l", "e", "t", "m", "e", "i", "n">>,
       <<"w", "e", "l", "c", "o", "m", "e">>,
       <<"m", "o", "n", "k", "e", "y">>,
       <<"1", "2", "3", "4", "5", "6", "7", "8", "9", "0">>,
       <<"a", "b", "c", "1", "2", "3">>,
       <<"p", "a", "s", "s", "w", "o", "r", "d", "1">>,
       <<"1", "2", "3", "4", "5", "6", "7", "8", "9">>,
       <<"w", "e", "l", "c", "o", "m", "e", "1", "2", "3">>,
       <<"a", "d", "m", "i", "n", "1", "2", "3">>,
       <<"r", "o", "o", "t">>,
       <<"t", "o", "o", "r">>,
       <<"p", "a", "s", "s">>,
       <<"t", "e", "s", "t">>,
       <<"g", "u", "e", "s", "t">>,
       <<"l", "o", "g", "i", "n">>,
       <<"m", "a", "s", "t", "e", "r">>,
       <<"h", "e", "l", "l", "o">>,
       <<"s", "u", "n", "s", "h", "i", "n", "e">>,
       <<"p", "r", "i", "n", "c", "e", "s", "s">>,
       <<"f", "o", "o", "t", "b", "a", "l", "l">>,
       <<"c", "h", "a", "r", "l", "i", "e">>,
       <<"a", "a", "1", "2", "3", "4", "5", "6">>,
       <<"0", "0", "0", "1", "2", "3">> >>

CommonPasswords ==
    << <<"p", "a", "s", "s", "w", "o", "r", "d">>,
       <<"1", "2", "3", "4", "5", "6">>,
       <<"p", "a", "s", "s", "w", "o", "r", "d", "1", "2", "3">>,
       <<"a", "d", "m", "i", "n">>,
       <<"q", "w", "e", "r", "t", "y">>,
       <<"l", "e", "t", "m", "e", "i", "n">>,
       <<"w", "e", "l", "c", "o", "m", "e">>,
       <<"m", "o", "n", "k", "e", "y">>,
       <<"1", "2", "3", "4", "5", "6", "7", "8", "9", "0">>,
       <<"a", "b", "c", "1", "2", "3">>,
       <<"p", "a", "s", "s", "w", "o", "r", "d", "1">>,
       <<"1", "2", "3", "4", "5", "6", "7", "8", "9">>,
       <<"w", "e", "l", "c", "o", "m", "e", "1", "2", "3">>,
       <<"a", "d", "m", "i", "n", "1", "2", "3">>,
       <<"r", "o", "o", "t">>,
       <<"t", "o", "o", "r">>,
       <<"p", "a", "s", "s">>,
       <<"t", "e", "s", "t">>,
       <<"g", "u", "e", "s", "t">>,
       <<"l", "o", "g", "i", "n">>,
       <<"m", "a", "s", "t", "e", "r">>,
       <<"h", "e", "l", "l", "o">>,
       <<"s", "u", "n", "s", "h", "i", "n", "e">>,
       <<"p", "r", "i", "n", "c", "e", "s", "s">>,
       <<"f", "o", "o", "t", "b", "a", "l", "l">>,
       <<"c", "h", "a", "r", "l", "i", "e">>,
       <<"a", "a", "1", "2", "3", "4", "5", "6">> >>

(***************************************************************************)
(* A call returns a value or raises an exception.                          *)
(***************************************************************************)
Return(v) == [kind |-> "return", value |-> v]
Raise(exc) == [kind |-> "raise", value |-> exc]

(***************************************************************************)
(* PasswordAnalyzer.check_criteria: the dict, in insertion order.          *)
(***************************************************************************)
Criterion(key, met, label, description) ==
    [key |-> key, met |-> met, label |-> label, description |-> description]

check_criteria(self, password) ==
    << Criterion("length_8", Len(password) >= 8,
                 "Minimum 8 characters", "Longer passwords are harder to crack"),
       Criterion("length_12", Len(password) >= 12,
                 "12+ characters (recommended)", "Significantly increases security"),
       Criterion("lowercase", SearchClass(LowerChars, password),
                 "Lowercase letters", "Include a-z characters"),
       Criterion("uppercase", SearchClass(UpperChars, password),
                 "Uppercase letters", "Include A-Z characters"),
       Criterion("numbers", SearchClass(DigitChars, password),
                 "Numbers", "Include 0-9 digits"),
       Criterion("special_chars", SearchOther(password),
                 "Special characters", "Include symbols like !@#$%"),
       Criterion("not_common", ~InList(StrLower(password), self),
                 "Not a common password", "Avoid easily guessable passwords"),
       Criterion("no_repeats", ~SearchRepeat(password),
                 "No repeated characters", "Avoid patterns like 'aaa' or '111'"),
       Criterion("no_sequences", ~SearchSequence(password),
                 "No sequential patterns", "Avoid keyboard patterns") >>

\* criteria[key]["met"], for a key the dict holds
Met(criteria, key) ==
    criteria[CHOOSE i \in 1..Len(criteria) : criteria[i].key = key].met

(***************************************************************************)
(* PasswordAnalyzer.calculate_score                                        *)
(***************************************************************************)
\* sum(1 for c in criteria.values() if c["met"])
MetCount(criteria) == Cardinality({i \in 1..Len(criteria) : criteria[i].met})

\* a variant that truncates the ratio before scaling it:
\* int(met_criteria / len(criteria)) * 100
calculate_score_truncating_ratio(criteria) ==
    LET met_criteria == MetCount(criteria)
        ratio == IntTrueDiv(FromInt(met_criteria), <<Len(criteria)>>)
    IN  IF ratio.kind = "raise" THEN ratio
        ELSE Return(Min(100, ToInt(FloatToInt(ratio.value)) * 100))

calculate_score(criteria) ==
    LET met_criteria == MetCount(criteria)
        ratio == IntTrueDiv(FromInt(met_criteria), <<Len(criteria)>>)
    IN  IF ratio.kind = "raise" THEN ratio
        ELSE Return(Min(100, ToInt(FloatToInt(FloatMul(ratio.value, 100)))))

(***************************************************************************)
(* PasswordAnalyzer.get_strength_level: (label, colour emoji), the emoji   *)
(* written by its code point.                                              *)
(***************************************************************************)
\* a variant whose top tier starts at 90
get_strength_level_from_90(score) ==
    IF score >= 90 THEN <<"Very Strong", "U+1F7E2">>
    ELSE IF score >= 60 THEN <<"Strong", "U+1F535">>
    ELSE IF score >= 40 THEN <<"Moderate", "U+1F7E1">>
    ELSE IF score >= 20 THEN <<"Weak", "U+1F7E0">>
    ELSE <<"Very Weak", "U+1F534">>

\* a variant that compares with > where the code compares with >=
get_strength_level_strict(score) ==
    IF score > 80 THEN <<"Very Strong", "U+1F7E2">>
    ELSE IF score > 60 THEN <<"Strong", "U+1F535">>
    ELSE IF score > 40 THEN <<"Moderate", "U+1F7E1">>
    ELSE IF score > 20 THEN <<"Weak", "U+1F7E0">>
    ELSE <<"Very Weak", "U+1F534">>

get_strength_level(score) ==
    IF score >= 80 THEN <<"Very Strong", "U+1F7E2">>
    ELSE IF score >= 60 THEN <<"Strong", "U+1F535">>
    ELSE IF score >= 40 THEN <<"Moderate", "U+1F7E1">>
    ELSE IF score >= 20 THEN <<"Weak", "U+1F7E0">>
    ELSE <<"Very Weak", "U+1F534">>

(***************************************************************************)
(* PasswordAnalyzer.estimate_crack_time                                    *)
(***************************************************************************)
\* 2 * guesses_per_second = 2 * 1_000_000_000, by its factors
TwiceGuessesPerSecond == <<2, 1000, 1000, 1000>>

\* the literal 31536000, by its factors, and the literal 31536000000
YearFactors == <<31536, 1000>>
ThousandYears == BigMul(FromInt(31536000), FromInt(1000))

\* f"{int(x)} {unit}"
Format(x, unit) == ToString(ToInt(FloatToInt(x))) \o " " \o unit

charset_size(password) ==
    (IF SearchClass(LowerChars, password) THEN 26 ELSE 0)
    + (IF SearchClass(UpperChars, password) THEN 26 ELSE 0)
    + (IF SearchClass(DigitChars, password) THEN 10 ELSE 0)
    + (IF SearchOther(password) THEN 32 ELSE 0)

estimate_crack_time(password) ==
    IF password = <<>> THEN Return("N/A")
    ELSE IF charset_size(password) = 0 THEN Return("Instantly")
    ELSE LET combinations == BigPow(charset_size(password), Len(password))
             quotient == IntTrueDiv(combinations, TwiceGuessesPerSecond)
             seconds_to_crack == quotient.value
         IN  IF quotient.kind = "raise" THEN quotient
             ELSE IF FloatLess(seconds_to_crack, FromInt(1))
                  THEN Return("Instantly")
             ELSE IF FloatLess(seconds_to_crack, FromInt(60))
                  THEN Return(Format(seconds_to_crack, "seconds"))
             ELSE IF FloatLess(seconds_to_crack, FromInt(3600))
                  THEN Return(Format(FloatDiv(seconds_to_crack, <<60>>), "minutes"))
             ELSE IF FloatLess(seconds_to_crack, FromInt(86400))
                  THEN Return(Format(FloatDiv(seconds_to_crack, <<3600>>), "hours"))
             ELSE IF FloatLess(seconds_to_crack, FromInt(31536000))
                  THEN Return(Format(FloatDiv(seconds_to_crack, <<86400>>), "days"))
             ELSE IF FloatLess(seconds_to_crack, ThousandYears)
                  THEN Return(Format(FloatDiv(seconds_to_crack, YearFactors), "years"))
             ELSE Return("Centuries")

(***************************************************************************)
(* PasswordAnalyzer.get_warnings_and_suggestions                           *)
(***************************************************************************)
\* the list after "if cond: list.append(text)"
AppendIf(list, cond, text) == IF cond THEN Append(list, text) ELSE list

get_warnings_and_suggestions(self, password, criteria) ==
    LET short  == Len(password) < 8
        common == InList(StrLower(password), self)
        repeat == SearchRepeat(password)
        seq    == SearchSequence(password)
        w1 == AppendIf(<<>>, short, "Password is too short")
        w2 == AppendIf(w1, common, "This is a commonly used password")
        w3 == AppendIf(w2, repeat, "Contains repeated characters")
        w4 == AppendIf(w3, seq, "Contains keyboard patterns")
        s1 == AppendIf(<<>>, short, "Use at least 8 characters")
        s2 == AppendIf(s1, ~Met(criteria, "lowercase"), "Add lowercase letters")
        s3 == AppendIf(s2, ~Met(criteria, "uppercase"), "Add uppercase letters")
        s4 == AppendIf(s3, ~Met(criteria, "numbers"), "Add numbers")
        s5 == AppendIf(s4, ~Met(criteria, "special_chars"), "Add special characters")
        s6 == AppendIf(s5, common, "Choose a unique password")
        s7 == AppendIf(s6, repeat, "Avoid character repetition")
        s8 == AppendIf(s7, seq, "Avoid sequential patterns")
    IN  <<w4, s8>>

(***************************************************************************)
(* PasswordAnalyzer.analyze_password.  An exception of a callee propagates. *)
(***************************************************************************)
analyze_password(self, password) ==
    LET criteria   == check_criteria(self, password)
        score      == calculate_score(criteria)
        level      == get_strength_level(score.value)
        crack_time == estimate_crack_time(password)
        advice     == get_warnings_and_suggestions(self, password, criteria)
    IN  IF score.kind = "raise" THEN score
        ELSE IF crack_time.kind = "raise" THEN crack_time
        ELSE Return([password    |-> password,
                     score       |-> score.value,
                     strength    |-> level[1],
                     color_emoji |-> level[2],
                     crack_time  |-> crack_time.value,
                     criteria    |-> criteria,
                     warnings    |-> advice[1],
                     suggestions |-> advice[2]])

\* a variant in which an analysis adds the password to the list
common_passwords_remembering(self, password) ==
    IF InList(StrLower(password), self) THEN self
    ELSE Append(self, StrLower(password))

\* self.common_passwords after analyze_password: no method assigns it or
\* changes the list
common_passwords_after(self, password) == self

(***************************************************************************)
(* Inputs.                                                                 *)
(***************************************************************************)
\* demo_mode's sample_passwords
SamplePasswords ==
    << <<"1", "2", "3", "4", "5", "6">>,
       <<"p", "a", "s", "s", "w", "o", "r", "d">>,
       <<"P", "a", "s", "s", "w", "o", "r", "d", "1">>,
       <<"M", "y", "P", "@", "s", "s", "w", "0", "r", "d">>,
       <<"T", "r", "0", "u", "b", "4", "d", "o", "r", "&", "3">>,
       <<"c", "o", "r", "r", "e", "c", "t", "-", "h", "o", "r", "s", "e", "-", "b", "a", "t", "t", "e", "r", "y", "-", "s", "t", "a", "p", "l", "e", "-", "2", "0", "2", "4", "!">> >>

CorrectHorse == SamplePasswords[6]

\* the strings the specification's examples name, and a digit string with
\* a run and a sequence
Password == <<"P", "a", "s", "s", "w", "o", "r", "d">>
ExamplePasswords ==
    { Password,
      <<"P", "A", "S", "S", "W", "O", "R", "D">>,
      <<"a", "a", "a", "1", "1", "1">>,
      <<"Q", "W", "E", "a", "s", "d">>,
      <<"0", "0", "0", "1", "2", "3">>,
      <<"a", "a", "\n", "\n", "\n", "b">> }

EnumChars == {"a", "A", "1", "!", "\n"}
EnumPasswords == UNION {[1..n -> EnumChars] : n \in 0..MaxLen}

\* one character of each class: [a-z], [A-Z], [0-9], other
ClassChars == <<"a", "B", "1", "!">>
Classes == (SUBSET (1..4)) \ {{}}
Unit(S) ==
    LET picked == SelectSeq(<<1, 2, 3, 4>>, LAMBDA i : i \in S)
    IN  [i \in 1..Len(picked) |-> ClassChars[picked[i]]]
Cyclic(unit, n) == [i \in 1..n |-> unit[((i - 1) % Len(unit)) + 1]]

\* every combination of classes at every length up to MaxRepLen
RepPasswords == {Cyclic(Unit(S), n) : S \in Classes, n \in 1..MaxRepLen}
\* all four classes, and digits alone, at length LongLen
LongPasswords == {Cyclic(Unit(S), LongLen) : S \in {{1, 2, 3, 4}, {3}}}

Passwords ==
    EnumPasswords \cup RepPasswords \cup LongPasswords
    \cup Range(CommonPasswords) \cup Range(SamplePasswords) \cup ExamplePasswords

(***************************************************************************)
(* State: the analyzer's list, the caller's password, the last call with   *)
(* its arguments and outcome, and a session's history of analyses.         *)
(***************************************************************************)
VARIABLES common_passwords, password, op, arg, ret, analysed

vars == <<common_passwords, password, op, arg, ret, analysed>>

Init ==
    /\ common_passwords = CommonPasswords
    /\ password \in Passwords
    /\ op = "__init__"
    /\ arg = <<>>
    /\ ret = Return("None")
    /\ analysed = <<>>

CheckCriteria ==
    /\ op' = "check_criteria"
    /\ arg' = <<password>>
    /\ ret' = Return(check_criteria(common_passwords, password))
    /\ UNCHANGED <<common_passwords, password, analysed>>

\* called with the criteria of the password, or with an empty dict
CalculateScore ==
    \E criteria \in {check_criteria(common_passwords, password), <<>>} :
        /\ op' = "calculate_score"
        /\ arg' = <<criteria>>
        /\ ret' = calculate_score(criteria)
        /\ UNCHANGED <<common_passwords, password, analysed>>

GetStrengthLevel ==
    \E score \in (-MaxScore)..MaxScore :
        /\ op' = "get_strength_level"
        /\ arg' = <<score>>
        /\ ret' = Return(get_strength_level(score))
        /\ UNCHANGED <<common_passwords, password, analysed>>

EstimateCrackTime ==
    /\ op' = "estimate_crack_time"
    /\ arg' = <<password>>
    /\ ret' = estimate_crack_time(password)
    /\ UNCHANGED <<common_passwords, password, analysed>>

GetWarningsAndSuggestions ==
    /\ op' = "get_warnings_and_suggestions"
    /\ arg' = <<password, check_criteria(common_passwords, password)>>
    /\ ret' = Return(get_warnings_and_suggestions(common_passwords, arg'[1], arg'[2]))
    /\ UNCHANGED <<common_passwords, password, analysed>>

\* the call analyze_password(password)
Analyze ==
    /\ op' = "analyze_password"
    /\ arg' = <<password>>
    /\ ret' = analyze_password(common_passwords, password)
    /\ common_passwords' = common_passwords_after(common_passwords, password)
    /\ UNCHANGED password

AnalyzePassword == Analyze /\ UNCHANGED analysed

\* the same call in a session that keeps, for each password, the outcome of
\* its first analysis and whether it was analysed again
AnalyzeInSession ==
    /\ Analyze
    /\ analysed' =
         IF password \in DOMAIN analysed
         THEN [analysed EXCEPT ![password].again = TRUE]
         ELSE analysed @@ (password :> [first |-> ret', again |-> FALSE])

\* interactive_mode's loop reads the next password
NextPassword ==
    /\ \E i \in 1..Len(SamplePasswords) : password' = SamplePasswords[i]
    /\ UNCHANGED <<common_passwords, op, arg, ret, analysed>>

\* the methods of one analyzer, called on one password in any order
Next ==
    \/ CheckCriteria
    \/ CalculateScore
    \/ EstimateCrackTime
    \/ GetWarningsAndSuggestions
    \/ AnalyzePassword

Spec == Init /\ [][Next]_vars

\* get_strength_level on every score
InitTier == Init /\ password = <<>>
SpecTier == InitTier /\ [][GetStrengthLevel]_vars

\* one analyzer analysing the sample passwords in any order, any number of times
InitSession == Init /\ password \in Range(SamplePasswords)
NextSession == AnalyzeInSession \/ NextPassword
SpecSession == InitSession /\ [][NextSession]_vars

(***************************************************************************)
(* The claims.                                                             *)
(***************************************************************************)

\* C1: analyze_password returns a result record for every password and
\* never fails, and estimate_crack_time returns a bucket string, which is
\* "Centuries" for a long password, instead of raising.
C1_AnalyzeNeverFails ==
    /\ op = "analyze_password" => ret.kind = "return"
    /\ op = "estimate_crack_time" =>
         /\ ret.kind = "return"
         /\ Len(arg[1]) >= LongLen => ret.value = "Centuries"

\* C2: for the criteria check_criteria produced, calculate_score returns
\* floor(100 * met / 9), which lies in 0..100, is 0 iff no criterion is met
\* and is 100 iff all nine are met.
C2_ScoreIsFloorOfRatio ==
    (op = "calculate_score" /\ arg[1] = check_criteria(common_passwords, password)) =>
        LET met == Cardinality({i \in 1..9 : arg[1][i].met})
        IN  /\ Len(arg[1]) = 9
            /\ ret = Return((100 * met) \div 9)
            /\ ret.value \in 0..100
            /\ ret.value = 0 <=> met = 0
            /\ ret.value = 100 <=> met = 9

\* calculate_score was called on a password's criteria with all nine met,
\* and on one with five of them met
C2_Witness ==
    /\ op = "calculate_score"
    /\ Len(arg[1]) = 9
    /\ \/ MetCount(arg[1]) = 9 /\ ret = Return(100)
       \/ MetCount(arg[1]) = 5 /\ ret = Return(55) /\ password = Password

\* C3: calculate_score on an empty criteria set fails with an InvalidState
\* error rather than dividing by zero.
C3_EmptyCriteriaInvalidState ==
    (op = "calculate_score" /\ arg[1] = <<>>) => ret = Raise("InvalidState")

\* C4: the alphabet size, the seconds and the buckets of estimate_crack_time,
\* in exact integer arithmetic.
AlphabetSize(s) ==
    (IF \E i \in 1..Len(s) : s[i] \in LowerChars THEN 26 ELSE 0)
    + (IF \E i \in 1..Len(s) : s[i] \in UpperChars THEN 26 ELSE 0)
    + (IF \E i \in 1..Len(s) : s[i] \in DigitChars THEN 10 ELSE 0)
    + (IF \E i \in 1..Len(s) : s[i] \notin (LowerChars \cup UpperChars \cup DigitChars)
       THEN 32 ELSE 0)

\* x * 2 * 10^9
TimesTwoBillion(x) == MulSmall(MulSmall(x, 2000), 1000000)

\* floor(c / (2 * 10^9 * unit)), the unit given by its factors
WholeUnits(c, unit) == ToInt(DivAll(c, <<2000, 1000000>> \o unit).q)

ExpectedCrackTime(s) ==
    IF s = <<>> THEN "N/A"
    ELSE LET c == BigPow(AlphabetSize(s), Len(s))
             Under(t) == BigLess(c, TimesTwoBillion(t))
         IN  IF Under(FromInt(1)) THEN "Instantly"
             ELSE IF Under(FromInt(60))
                  THEN ToString(WholeUnits(c, <<>>)) \o " seconds"
             ELSE IF Under(FromInt(3600))
                  THEN ToString(WholeUnits(c, <<60>>)) \o " minutes"
             ELSE IF Under(FromInt(86400))
                  THEN ToString(WholeUnits(c, <<3600>>)) \o " hours"
             ELSE IF Under(FromInt(31536000))
                  THEN ToString(WholeUnits(c, <<86400>>)) \o " days"
             ELSE IF Under(MulSmall(FromInt(31536000), 1000))
                  THEN ToString(WholeUnits(c, <<31536, 1000>>)) \o " years"
             ELSE "Centuries"

C4_CrackTimeBuckets ==
    op = "estimate_crack_time" =>
        /\ ret = Return(ExpectedCrackTime(arg[1]))
        /\ arg[1] = <<>> => ret = Return("N/A")
        /\ arg[1] = <<"a">> => ret = Return("Instantly")

\* C5: check_criteria returns the nine identifiers once each and in order,
\* and each "met" value is its own rule.
CriteriaKeys ==
    <<"length_8", "length_12", "lowercase", "uppercase", "numbers",
      "special_chars", "not_common", "no_repeats", "no_sequences">>

HasRun(s) == \E i \in 1..(Len(s) - 2) : s[i] = s[i + 1] /\ s[i + 1] = s[i + 2]

HasSequence(s) ==
    \E i \in 1..(Len(s) - 2) : SubSeq(StrLower(s), i, i + 2) \in SequencePatterns

IsCommon(s) == \E i \in 1..Len(CommonPasswords) : CommonPasswords[i] = StrLower(s)

RuleOf(s) ==
    << Len(s) >= 8,
       Len(s) >= 12,
       \E i \in 1..Len(s) : s[i] \in LowerChars,
       \E i \in 1..Len(s) : s[i] \in UpperChars,
       \E i \in 1..Len(s) : s[i] \in DigitChars,
       \E i \in 1..Len(s) : s[i] \notin (LowerChars \cup UpperChars \cup DigitChars),
       ~IsCommon(s),
       ~HasRun(s),
       ~HasSequence(s) >>

MetKeys(criteria) ==
    {criteria[i].key : i \in {j \in 1..Len(criteria) : criteria[j].met}}

C5_CriteriaRules ==
    op = "check_criteria" =>
        /\ [i \in 1..Len(ret.value) |-> ret.value[i].key] = CriteriaKeys
        /\ [i \in 1..Len(ret.value) |-> ret.value[i].met] = RuleOf(arg[1])
        /\ arg[1] = <<>> =>
             MetKeys(ret.value) = {"not_common", "no_repeats", "no_sequences"}
        /\ arg[1] = <<"a", "a", "a", "1", "1", "1">> =>
             {"no_repeats", "length_8"} \cap MetKeys(ret.value) = {}
        /\ arg[1] = <<"Q", "W", "E", "a", "s", "d">> =>
             "no_sequences" \notin MetKeys(ret.value)

\* C6: analyze_password("correct-horse-battery-staple-2024!") yields a
\* score of at least 80 and "Very Strong".  As stated, with all four
\* character classes present:
C6_AllFourClasses ==
    (op = "analyze_password" /\ arg[1] = CorrectHorse) =>
        /\ ret.kind = "return"
        /\ ret.value.score >= 80
        /\ ret.value.strength = "Very Strong"
        /\ MetKeys(ret.value.criteria) =
             {"length_8", "length_12", "lowercase", "uppercase", "numbers",
              "special_chars", "not_common", "no_repeats", "no_sequences"}

\* C6 as amended: the password has no uppercase letter, so it meets eight of
\* the nine criteria, all but "uppercase"; its score is 88, which is at
\* least 80, and its label is "Very Strong".
C6_ThreeClasses ==
    (op = "analyze_password" /\ arg[1] = CorrectHorse) =>
        /\ ret.kind = "return"
        /\ ret.value.score = 88
        /\ ret.value.score >= 80
        /\ ret.value.strength = "Very Strong"
        /\ MetKeys(ret.value.criteria) =
             {"length_8", "length_12", "lowercase", "numbers",
              "special_chars", "not_common", "no_repeats", "no_sequences"}

C6_Witness ==
    /\ op = "analyze_password"
    /\ arg[1] = CorrectHorse
    /\ ret.kind = "return"
    /\ ret.value.password = CorrectHorse

\* C7: the warnings and the suggestions are the texts, in the fixed order,
\* whose triggers hold: too short; a class criterion unmet; the lower-cased
\* password in the common list; a run of three equal characters; a listed
\* sequence, case-insensitively.  No text occurs twice.
Texts(pairs) ==
    LET kept == SelectSeq(pairs, LAMBDA pair : pair[1])
    IN  [i \in 1..Len(kept) |-> kept[i][2]]

ExpectedWarnings(s) ==
    Texts(<< <<Len(s) < 8, "Password is too short">>,
             <<IsCommon(s), "This is a commonly used password">>,
             <<HasRun(s), "Contains repeated characters">>,
             <<HasSequence(s), "Contains keyboard patterns">> >>)

ExpectedSuggestions(s, criteria) ==
    Texts(<< <<Len(s) < 8, "Use at least 8 characters">>,
             <<~Met(criteria, "lowercase"), "Add lowercase letters">>,
             <<~Met(criteria, "uppercase"), "Add uppercase letters">>,
             <<~Met(criteria, "numbers"), "Add numbers">>,
             <<~Met(criteria, "special_chars"), "Add special characters">>,
             <<IsCommon(s), "Choose a unique password">>,
             <<HasRun(s), "Avoid character repetition">>,
             <<HasSequence(s), "Avoid sequential patterns">> >>)

NoDuplicates(list) ==
    \A i, j \in 1..Len(list) : list[i] = list[j] => i = j

C7_AdvisoryTriggers ==
    op = "get_warnings_and_suggestions" =>
        /\ ret.value[1] = ExpectedWarnings(arg[1])
        /\ ret.value[2] = ExpectedSuggestions(arg[1], arg[2])
        /\ NoDuplicates(ret.value[1]) /\ NoDuplicates(ret.value[2])
        /\ arg[1] = Password =>
             \E i \in 1..Len(ret.value[1]) :
                 ret.value[1][i] = "This is a commonly used password"

\* C8: get_strength_level maps every integer score to the tier of the
\* threshold table: >= 80 Very Strong, 60..79 Strong, 40..59 Moderate,
\* 20..39 Weak, < 20 Very Weak.
C8_TierTable ==
    op = "get_strength_level" =>
        LET score == arg[1]
            label == ret.value[1]
        IN  /\ ret.kind = "return"
            /\ label \in {"Very Strong", "Strong", "Moderate", "Weak", "Very Weak"}
            /\ label = "Very Strong" <=> score >= 80
            /\ label = "Strong" <=> score \in 60..79
            /\ label = "Moderate" <=> score \in 40..59
            /\ label = "Weak" <=> score \in 20..39
            /\ label = "Very Weak" <=> score < 20

\* get_strength_level was called at a boundary of the table
C8_Witness ==
    /\ op = "get_strength_level"
    /\ \/ arg[1] = 80 /\ ret.value[1] = "Very Strong"
       \/ arg[1] = 79 /\ ret.value[1] = "Strong"
       \/ arg[1] = 20 /\ ret.value[1] = "Weak"
       \/ arg[1] = 19 /\ ret.value[1] = "Very Weak"

====
